---- MODULE Spec2Model ----
(***************************************************************************)
(* Model of the call processing engine of callattendant                    *)
(* (src/callattendant/app.py): CallAttendant.handle_caller, the loop of    *)
(* CallAttendant.run and CallAttendant.answer_call.                        *)
(*                                                                         *)
(* Two threads: the modem (hardware) thread, which enqueues callers and    *)
(* raises the ring event, and the processing thread running run().  The    *)
(* processing thread's position is pc; every collaborator call (screener,  *)
(* indicators, logger, modem, voice mail) is one step whose result, or     *)
(* exception, is chosen nondeterministically.                              *)
(***************************************************************************)
EXTENDS Naturals, Sequences, FiniteSets

\* ---------------------------------------------------------------- bounds
\* Number of callers the modem thread delivers in one behaviour.
MaxCalls == 2
\* Largest configured rings_before_answer.
MaxRings == 3

\* ----------------------------------------------------------- vocabulary
Modes == {"whitelist", "blacklist"}
Categories == {"Permitted", "Blocked", "Screened"}
\* One category's namespace of the configuration: its action list (the order
\* of the names is part of the input) and its rings_before_answer.  The
\* namespaces tried: an empty list behind a ring wait, a greeting alone
\* answered at once, "voice_mail" without and with "record_message", and ring
\* counts 0, 1, 2 and MaxRings.
Plans ==
    { [actions |-> << >>, rings_before_answer |-> 2],
      [actions |-> <<"greeting">>, rings_before_answer |-> 0],
      [actions |-> <<"voice_mail", "greeting">>, rings_before_answer |-> 1],
      [actions |-> <<"record_message", "voice_mail", "greeting">>, rings_before_answer |-> 2],
      [actions |-> <<"record_message", "voice_mail", "greeting">>, rings_before_answer |-> MaxRings] }
\* Reason strings a membership check hands back ("" when it has nothing to say).
WhitelistReasons == {"", "on whitelist"}
BlacklistReasons == {"", "on blacklist"}
\* What a collaborator call can raise.
Exceptions == {"RuntimeError", "Exception"}

VARIABLES
    config,              \* self.config: SCREENING_MODE and the three namespaces
    caller_queue,        \* self._caller_queue
    arrived,             \* number of callers the modem thread has delivered
    pc,                  \* position of the processing thread in run()/answer_call()
    caller,              \* the caller being processed (0: none)
    caller_permitted, caller_screened, caller_blocked,
    action, reason,      \* locals of run()
    call_no,             \* id returned by log_caller
    actions, rings_before_answer,
    ok_to_answer, ring_count,
    ring_flag,           \* modem.ring_event's internal flag
    notified,            \* a set() reached the thread blocked in ring_event.wait
    off_hook,            \* the processing thread holds the modem (between pick_up and hang_up)
    pending,             \* exception in flight inside answer_call's try ("none" if none)
    failure,             \* which collaborator's exception reached run()'s handler
    events,              \* collaborator calls made for the current caller, in order,
                         \* with their result where the code branches on it
    log_action, log_reason,  \* arguments of the current caller's log_caller call
    log_seq,             \* calls logged so far (the logger's id counter)
    ring_new,            \* history: the modem set() the ring event since the current
                         \* call's ring wait began or last counted a ring
    returned,            \* history: the reason handed back by the last membership
                         \* check made for the current caller ("" if none was made)
    replayed             \* history: a wait of the current call returned True on a flag
                         \* that no such set() had raised

vars == << config, caller_queue, arrived, pc, caller,
           caller_permitted, caller_screened, caller_blocked,
           action, reason, call_no, actions, rings_before_answer,
           ok_to_answer, ring_count, ring_flag, notified, off_hook,
           pending, failure, events, log_action, log_reason, log_seq,
           ring_new, returned, replayed >>

\* ------------------------------------------------------------- helpers
\* Python's `x in list`.
InList(x, s) == \E i \in 1..Len(s) : s[i] = x
\* Number of occurrences of e in the event sequence s.
Count(e, s) == Cardinality({i \in 1..Len(s) : s[i] = e})
\* The events of s that are a call of one of the names in S.
CountIn(S, s) == Cardinality({i \in 1..Len(s) : s[i] \in S})
\* Index of the first occurrence of e in s (0 when absent).
First(e, s) == IF InList(e, s) THEN CHOOSE i \in 1..Len(s) :
                                        s[i] = e /\ \A j \in 1..(i-1) : s[j] # e
               ELSE 0

\* ------------------------------------------------- the caller queue
\* line 97: self._caller_queue.put(caller) -- queue.Queue is first in, first out
QueuePut(q, c) == Append(q, c)
\* line 121: self._caller_queue.get() returns the oldest item ...
QueueGetNewest(q) == q[Len(q)]
QueueGet(q) == Head(q)
\* ... and removes it.
QueueRest(q) == Tail(q)

\* --------------------------------------------- conditions of run()
\* line 136: if "whitelist" in screening_mode
WhitelistEnabled(mode) == "whitelist" \in mode

\* line 145: if not caller_permitted and "blacklist" in screening_mode
BlacklistGuardNoPreempt(permitted, mode) == "blacklist" \in mode
BlacklistGuard(permitted, mode) == ~permitted /\ "blacklist" \in mode

\* lines 138, 147: `is_whitelisted, reason = ...`: the tuple assignment stores
\* the returned reason whether or not the list matched
ReasonKeptUnlessMatched(matched, old, r) == IF matched THEN r ELSE old
ReasonAfterCheck(matched, old, r) == r

\* line 153: if not caller_permitted and not caller_blocked
ScreenedGuardIgnoreBlocked(permitted, blocked) == ~permitted
ScreenedGuard(permitted, blocked) == ~permitted /\ ~blocked

\* lines 142, 151, 156: the indicator that blinks for a category
IndicatorAlwaysApproved(category) == "approved_blink"
IndicatorFor(category) ==
    IF category = "Blocked" THEN "blocked_blink" ELSE "approved_blink"

\* lines 163-174: the namespace the caller's category selects
PlanFor(cfg, permitted, screened, blocked) ==
    IF permitted THEN cfg.permitted
    ELSE IF screened THEN cfg.screened
    ELSE cfg.blocked

\* line 158: the step that follows classification is the log_caller call
PcAfterClassifySkipLog == "gather"
PcAfterClassify == "log"

\* line 178: ring_count = 1
RingCountInit == 1

\* line 179: while ring_count < rings_before_answer
RingLoopCondInclusive(rc, n) == rc <= n
RingLoopCond(rc, n) == rc < n

\* lines 182-183: a wait that returns True counts one more ring
RingCountStuck(rc) == rc
RingCountAfterSignal(rc) == rc + 1

\* lines 185-190: a timed-out wait clears ok_to_answer and leaves the loop
PcAfterTimeoutContinue == "ring_loop"
PcAfterTimeoutReturn == "exited"
PcAfterTimeout == "answer"

\* line 193: if ok_to_answer and len(actions) > 0
AnswerGuardIgnoreRings(ok, acts) == Len(acts) > 0
AnswerGuard(ok, acts) == ok /\ Len(acts) > 0

\* lines 196-199: except Exception: ... return 1
ExceptPc == "exited"

\* --------------------------------------- conditions of answer_call()
\* line 207: if self.modem.pick_up() is false, nothing else is executed
PcPickUpFailedIgnored == "greeting"
PcPickUpFailed == "get"

\* lines 207-212: after a successful pick_up the greeting test comes first
PcAfterPickUpSkipGreeting == "record"
PcAfterPickUp == "greeting"

\* line 210
GreetingGuard(acts) == InList("greeting", acts)
\* line 215
RecordGuard(acts) == InList("record_message", acts)
\* line 220: elif "voice_mail" in actions
VoiceMailGuardNoElif(acts) == InList("voice_mail", acts)
VoiceMailGuard(acts) == ~RecordGuard(acts) /\ InList("voice_mail", acts)

\* line 224: except RuntimeError
Caught(e) == e = "RuntimeError"

\* lines 227-229: finally: hang_up() runs however the try block ended
PcAfterTryNoFinally(e) == IF e = "none" \/ Caught(e) THEN "hang_up" ELSE ExceptPc
PcAfterTry(e) == "hang_up"

\* ----------------------------------------------------------------- Init
\* A namespace run() never reads under the screening mode: "permitted" is
\* read only after a whitelist match (lines 135-142) and "blocked" only after
\* a blacklist match (lines 144-151), so it is held at one value.
UnreadPlan == [actions |-> << >>, rings_before_answer |-> 2]

Configs ==
    { c \in [SCREENING_MODE : SUBSET Modes,
             permitted : Plans, screened : Plans, blocked : Plans] :
        /\ "whitelist" \notin c.SCREENING_MODE => c.permitted = UnreadPlan
        /\ "blacklist" \notin c.SCREENING_MODE => c.blocked = UnreadPlan }

Init ==
    /\ config \in Configs
    /\ caller_queue = << >>
    /\ arrived = 0
    /\ pc = "get"
    /\ caller = 0
    /\ caller_permitted = FALSE
    /\ caller_screened = FALSE
    /\ caller_blocked = FALSE
    /\ action = ""
    /\ reason = ""
    /\ call_no = 0
    /\ actions = << >>
    /\ rings_before_answer = 0
    /\ ok_to_answer = TRUE
    /\ ring_count = RingCountInit
    /\ ring_flag = FALSE
    /\ notified = FALSE
    /\ off_hook = FALSE
    /\ pending = "none"
    /\ failure = "none"
    /\ events = << >>
    /\ log_action = ""
    /\ log_reason = ""
    /\ log_seq = 0
    /\ ring_new = FALSE
    /\ returned = ""
    /\ replayed = FALSE

\* Positions of the ring wait loop (lines 179-190).
RingPcs == {"ring_loop", "ring_wait", "ring_blocked"}

\* -------------------------------------------------- the modem thread
\* handle_caller (lines 87-97): the modem's callback enqueues the caller.
HandleCaller ==
    /\ arrived < MaxCalls
    /\ arrived' = arrived + 1
    /\ caller_queue' = QueuePut(caller_queue, arrived + 1)
    /\ UNCHANGED << config, pc, caller, caller_permitted, caller_screened,
                    caller_blocked, action, reason, call_no, actions,
                    rings_before_answer, ok_to_answer, ring_count, ring_flag,
                    notified, off_hook, pending, failure, events,
                    log_action, log_reason, log_seq,
                    ring_new, replayed, returned >>

\* The modem detects a ring and set()s modem.ring_event: the flag becomes true
\* and a thread blocked in wait() is woken.
ModemRing ==
    /\ ring_flag' = TRUE
    /\ notified' = (notified \/ pc = "ring_blocked")
    /\ ring_new' = (ring_new \/ pc \in RingPcs)
    /\ UNCHANGED << config, caller_queue, arrived, pc, caller, caller_permitted,
                    caller_screened, caller_blocked, action, reason, call_no,
                    actions, rings_before_answer, ok_to_answer, ring_count,
                    off_hook, pending, failure, events,
                    log_action, log_reason, log_seq,
                    replayed, returned >>

\* The modem clear()s modem.ring_event (run() itself never does).
ModemRingClear ==
    /\ ring_flag
    /\ ring_flag' = FALSE
    /\ UNCHANGED << config, caller_queue, arrived, pc, caller, caller_permitted,
                    caller_screened, caller_blocked, action, reason, call_no,
                    actions, rings_before_answer, ok_to_answer, ring_count,
                    notified, off_hook, pending, failure, events,
                    log_action, log_reason, log_seq,
                    ring_new, replayed, returned >>

\* ------------------------------------------- the processing thread: run()
\* lines 121-133: caller = self._caller_queue.get() (blocks while the queue is
\* empty), then the per-call locals are reset.  Locals of the previous call
\* that are reassigned before their next use (call_no, actions,
\* rings_before_answer, ok_to_answer, ring_count) are reset here as well.
Dequeue ==
    /\ pc = "get"
    /\ caller_queue # << >>
    /\ caller' = QueueGet(caller_queue)
    /\ caller_queue' = QueueRest(caller_queue)
    /\ caller_permitted' = FALSE
    /\ caller_screened' = FALSE
    /\ caller_blocked' = FALSE
    /\ action' = ""
    /\ reason' = ""
    /\ call_no' = 0
    /\ actions' = << >>
    /\ rings_before_answer' = 0
    /\ ok_to_answer' = TRUE
    /\ ring_count' = RingCountInit
    /\ pending' = "none"
    /\ events' = << >>
    /\ log_action' = ""
    /\ log_reason' = ""
    /\ pc' = "whitelist"
    /\ ring_new' = FALSE
    /\ replayed' = FALSE
    /\ returned' = ""
    /\ UNCHANGED << config, arrived, ring_flag, notified, off_hook, failure, log_seq >>

\* lines 135-142: the whitelist check.
CheckWhitelist ==
    /\ pc = "whitelist"
    /\ IF WhitelistEnabled(config.SCREENING_MODE)
       THEN \/ \* is_whitelisted raises
               /\ events' = Append(events, "is_whitelisted:raise")
               /\ failure' = "screener"
               /\ pc' = ExceptPc
               /\ UNCHANGED << reason, returned, caller_permitted, action >>
            \/ \* is_whitelisted returns (False, r)
               \E r \in WhitelistReasons :
                 /\ events' = Append(events, "is_whitelisted:false")
                 /\ reason' = ReasonAfterCheck(FALSE, reason, r)
                 /\ returned' = r
                 /\ pc' = "blacklist"
                 /\ UNCHANGED << caller_permitted, action, failure >>
            \/ \* is_whitelisted returns (True, r); the approved indicator blinks or raises
               \E r \in WhitelistReasons, blink_ok \in BOOLEAN :
                 /\ reason' = ReasonAfterCheck(TRUE, reason, r)
                 /\ returned' = r
                 /\ caller_permitted' = TRUE
                 /\ action' = "Permitted"
                 /\ events' = events \o << "is_whitelisted:true", IndicatorFor("Permitted") >>
                 /\ failure' = IF blink_ok THEN failure ELSE "indicator"
                 /\ pc' = IF blink_ok THEN "blacklist" ELSE ExceptPc
       ELSE /\ pc' = "blacklist"
            /\ UNCHANGED << events, reason, returned, caller_permitted, action, failure >>
    /\ UNCHANGED << config, caller_queue, arrived, caller, caller_screened,
                    caller_blocked, call_no, actions, rings_before_answer,
                    ok_to_answer, ring_count, ring_flag, notified, off_hook,
                    pending, log_action, log_reason, log_seq,
                    ring_new, replayed >>

\* lines 144-151: the blacklist check, unless the whitelist preempted it.
CheckBlacklist ==
    /\ pc = "blacklist"
    /\ IF BlacklistGuard(caller_permitted, config.SCREENING_MODE)
       THEN \/ \* is_blacklisted raises
               /\ events' = Append(events, "is_blacklisted:raise")
               /\ failure' = "screener"
               /\ pc' = ExceptPc
               /\ UNCHANGED << reason, returned, caller_blocked, action >>
            \/ \* is_blacklisted returns (False, r)
               \E r \in BlacklistReasons :
                 /\ events' = Append(events, "is_blacklisted:false")
                 /\ reason' = ReasonAfterCheck(FALSE, reason, r)
                 /\ returned' = r
                 /\ pc' = "screened"
                 /\ UNCHANGED << caller_blocked, action, failure >>
            \/ \* is_blacklisted returns (True, r); the blocked indicator blinks or raises
               \E r \in BlacklistReasons, blink_ok \in BOOLEAN :
                 /\ reason' = ReasonAfterCheck(TRUE, reason, r)
                 /\ returned' = r
                 /\ caller_blocked' = TRUE
                 /\ action' = "Blocked"
                 /\ events' = events \o << "is_blacklisted:true", IndicatorFor("Blocked") >>
                 /\ failure' = IF blink_ok THEN failure ELSE "indicator"
                 /\ pc' = IF blink_ok THEN "screened" ELSE ExceptPc
       ELSE /\ pc' = "screened"
            /\ UNCHANGED << events, reason, returned, caller_blocked, action, failure >>
    /\ UNCHANGED << config, caller_queue, arrived, caller, caller_permitted,
                    caller_screened, call_no, actions, rings_before_answer,
                    ok_to_answer, ring_count, ring_flag, notified, off_hook,
                    pending, log_action, log_reason, log_seq,
                    ring_new, replayed >>

\* lines 153-156: neither list decided: the caller is screened.
DefaultScreened ==
    /\ pc = "screened"
    /\ IF ScreenedGuard(caller_permitted, caller_blocked)
       THEN \E blink_ok \in BOOLEAN :
              /\ caller_screened' = TRUE
              /\ action' = "Screened"
              /\ events' = Append(events, IndicatorFor("Screened"))
              /\ failure' = IF blink_ok THEN failure ELSE "indicator"
              /\ pc' = IF blink_ok THEN PcAfterClassify ELSE ExceptPc
       ELSE /\ pc' = PcAfterClassify
            /\ UNCHANGED << caller_screened, action, events, failure >>
    /\ UNCHANGED << config, caller_queue, arrived, caller, caller_permitted,
                    caller_blocked, reason, call_no, actions, rings_before_answer,
                    ok_to_answer, ring_count, ring_flag, notified, off_hook,
                    pending, log_action, log_reason, log_seq,
                    ring_new, replayed, returned >>

\* line 159: call_no = self.logger.log_caller(caller, action, reason)
LogCaller ==
    /\ pc = "log"
    /\ events' = Append(events, "log_caller")
    /\ log_action' = action
    /\ log_reason' = reason
    /\ \/ /\ log_seq' = log_seq + 1
          /\ call_no' = log_seq + 1
          /\ pc' = "gather"
          /\ UNCHANGED failure
       \/ \* log_caller raises
          /\ failure' = "logger"
          /\ pc' = ExceptPc
          /\ UNCHANGED << log_seq, call_no >>
    /\ UNCHANGED << config, caller_queue, arrived, caller, caller_permitted,
                    caller_screened, caller_blocked, action, reason, actions,
                    rings_before_answer, ok_to_answer, ring_count, ring_flag,
                    notified, off_hook, pending,
                    ring_new, replayed, returned >>

\* lines 162-178: the category's namespace gives the actions and the ring count;
\* ok_to_answer = True, ring_count = 1.
GatherPlan ==
    /\ pc = "gather"
    /\ LET plan == PlanFor(config, caller_permitted, caller_screened, caller_blocked)
       IN /\ actions' = plan.actions
          /\ rings_before_answer' = plan.rings_before_answer
    /\ ok_to_answer' = TRUE
    /\ ring_count' = RingCountInit
    /\ pc' = "ring_loop"
    /\ ring_new' = FALSE
    /\ UNCHANGED << config, caller_queue, arrived, caller, caller_permitted,
                    caller_screened, caller_blocked, action, reason, call_no,
                    ring_flag, notified, off_hook, pending, failure, events,
                    log_action, log_reason, log_seq,
                    replayed, returned >>

\* line 179: while ring_count < rings_before_answer
RingLoopTest ==
    /\ pc = "ring_loop"
    /\ pc' = IF RingLoopCond(ring_count, rings_before_answer) THEN "ring_wait" ELSE "answer"
    /\ ring_new' = (ring_new /\ RingLoopCond(ring_count, rings_before_answer))
    /\ UNCHANGED << config, caller_queue, arrived, caller, caller_permitted,
                    caller_screened, caller_blocked, action, reason, call_no,
                    actions, rings_before_answer, ok_to_answer, ring_count,
                    ring_flag, notified, off_hook, pending, failure, events,
                    log_action, log_reason, log_seq,
                    replayed, returned >>

\* line 182: self.modem.ring_event.wait(7) is entered: with the flag set it
\* returns True at once (lines 183-184), otherwise the thread blocks.
RingWaitEnter ==
    /\ pc = "ring_wait"
    /\ IF ring_flag
       THEN /\ events' = events \o << "wait", "signal" >>
            /\ ring_count' = RingCountAfterSignal(ring_count)
            /\ pc' = "ring_loop"
            /\ UNCHANGED notified
       ELSE /\ events' = Append(events, "wait")
            /\ notified' = FALSE
            /\ pc' = "ring_blocked"
            /\ UNCHANGED ring_count
    /\ ring_new' = (ring_new /\ ~ring_flag)
    /\ replayed' = (replayed \/ (ring_flag /\ ~ring_new))
    /\ UNCHANGED << config, caller_queue, arrived, caller, caller_permitted,
                    caller_screened, caller_blocked, action, reason, call_no,
                    actions, rings_before_answer, ok_to_answer, ring_flag,
                    off_hook, pending, failure, log_action, log_reason,
                    log_seq, returned >>

\* lines 182-184: the blocked wait is woken by a set() and returns True.
RingWaitSignal ==
    /\ pc = "ring_blocked"
    /\ notified
    /\ notified' = FALSE
    /\ events' = Append(events, "signal")
    /\ ring_count' = RingCountAfterSignal(ring_count)
    /\ pc' = "ring_loop"
    /\ ring_new' = FALSE
    /\ UNCHANGED << config, caller_queue, arrived, caller, caller_permitted,
                    caller_screened, caller_blocked, action, reason, call_no,
                    actions, rings_before_answer, ok_to_answer, ring_flag,
                    off_hook, pending, failure, log_action, log_reason, log_seq,
                    replayed, returned >>

\* lines 185-190: the wait times out and returns False.
RingWaitTimeout ==
    /\ pc = "ring_blocked"
    /\ ~notified
    /\ events' = Append(events, "timeout")
    /\ ok_to_answer' = FALSE
    /\ pc' = PcAfterTimeout
    /\ ring_new' = FALSE
    /\ UNCHANGED << config, caller_queue, arrived, caller, caller_permitted,
                    caller_screened, caller_blocked, action, reason, call_no,
                    actions, rings_before_answer, ring_count, ring_flag, notified,
                    off_hook, pending, failure, log_action, log_reason, log_seq,
                    replayed, returned >>

\* lines 192-194: answer the call, or go back to the queue.
AnswerTest ==
    /\ pc = "answer"
    /\ pc' = IF AnswerGuard(ok_to_answer, actions) THEN "pick_up" ELSE "get"
    /\ UNCHANGED << config, caller_queue, arrived, caller, caller_permitted,
                    caller_screened, caller_blocked, action, reason, call_no,
                    actions, rings_before_answer, ok_to_answer, ring_count,
                    ring_flag, notified, off_hook, pending, failure, events,
                    log_action, log_reason, log_seq,
                    ring_new, replayed, returned >>

\* ------------------------------------ the processing thread: answer_call()
\* line 207: self.modem.pick_up() returns True (off-hook), returns False, or raises.
PickUp ==
    /\ pc = "pick_up"
    /\ \/ /\ events' = Append(events, "pick_up:true")
          /\ off_hook' = TRUE
          /\ pc' = PcAfterPickUp
          /\ UNCHANGED failure
       \/ /\ events' = Append(events, "pick_up:false")
          /\ pc' = PcPickUpFailed
          /\ UNCHANGED << off_hook, failure >>
       \/ /\ events' = Append(events, "pick_up:raise")
          /\ failure' = "modem"
          /\ pc' = ExceptPc
          /\ UNCHANGED off_hook
    /\ UNCHANGED << config, caller_queue, arrived, caller, caller_permitted,
                    caller_screened, caller_blocked, action, reason, call_no,
                    actions, rings_before_answer, ok_to_answer, ring_count,
                    ring_flag, notified, pending, log_action, log_reason, log_seq,
                    ring_new, replayed, returned >>

\* lines 209-212: play the greeting, inside the try block.
PlayGreeting ==
    /\ pc = "greeting"
    /\ IF GreetingGuard(actions)
       THEN /\ events' = Append(events, "play_audio")
            /\ \/ /\ pc' = "record"
                  /\ UNCHANGED pending
               \/ \E e \in Exceptions :
                    /\ pending' = e
                    /\ pc' = PcAfterTry(e)
       ELSE /\ pc' = "record"
            /\ UNCHANGED << events, pending >>
    /\ UNCHANGED << config, caller_queue, arrived, caller, caller_permitted,
                    caller_screened, caller_blocked, action, reason, call_no,
                    actions, rings_before_answer, ok_to_answer, ring_count,
                    ring_flag, notified, off_hook, failure, log_action,
                    log_reason, log_seq,
                    ring_new, replayed, returned >>

\* lines 214-217: record a message, inside the try block.
RecordMessage ==
    /\ pc = "record"
    /\ IF RecordGuard(actions)
       THEN /\ events' = Append(events, "record_message")
            /\ \/ /\ pc' = "voice_mail"
                  /\ UNCHANGED pending
               \/ \E e \in Exceptions :
                    /\ pending' = e
                    /\ pc' = PcAfterTry(e)
       ELSE /\ pc' = "voice_mail"
            /\ UNCHANGED << events, pending >>
    /\ UNCHANGED << config, caller_queue, arrived, caller, caller_permitted,
                    caller_screened, caller_blocked, action, reason, call_no,
                    actions, rings_before_answer, ok_to_answer, ring_count,
                    ring_flag, notified, off_hook, failure, log_action,
                    log_reason, log_seq,
                    ring_new, replayed, returned >>

\* lines 219-222: the elif branch: enter the voice mail menu; the try block ends.
VoiceMailMenu ==
    /\ pc = "voice_mail"
    /\ IF VoiceMailGuard(actions)
       THEN /\ events' = Append(events, "voice_messaging_menu")
            /\ \/ /\ pc' = PcAfterTry("none")
                  /\ UNCHANGED pending
               \/ \E e \in Exceptions :
                    /\ pending' = e
                    /\ pc' = PcAfterTry(e)
       ELSE /\ pc' = PcAfterTry("none")
            /\ UNCHANGED << events, pending >>
    /\ UNCHANGED << config, caller_queue, arrived, caller, caller_permitted,
                    caller_screened, caller_blocked, action, reason, call_no,
                    actions, rings_before_answer, ok_to_answer, ring_count,
                    ring_flag, notified, off_hook, failure, log_action,
                    log_reason, log_seq,
                    ring_new, replayed, returned >>

\* lines 224-229: the finally block calls self.modem.hang_up(); a RuntimeError
\* from the try block was caught (line 224), any other exception goes on to
\* run()'s handler after the hang_up, as does an exception of hang_up itself.
HangUp ==
    /\ pc = "hang_up"
    /\ events' = Append(events, "hang_up")
    /\ off_hook' = FALSE
    /\ \/ IF pending = "none" \/ Caught(pending)
          THEN /\ pc' = "get"
               /\ UNCHANGED failure
          ELSE /\ failure' = "action"
               /\ pc' = ExceptPc
       \/ /\ failure' = "modem"
          /\ pc' = ExceptPc
    /\ UNCHANGED << config, caller_queue, arrived, caller, caller_permitted,
                    caller_screened, caller_blocked, action, reason, call_no,
                    actions, rings_before_answer, ok_to_answer, ring_count,
                    ring_flag, notified, pending, log_action, log_reason, log_seq,
                    ring_new, replayed, returned >>

\* ----------------------------------------------------------------- Spec
Next ==
    \/ HandleCaller
    \/ ModemRing
    \/ ModemRingClear
    \/ Dequeue
    \/ CheckWhitelist
    \/ CheckBlacklist
    \/ DefaultScreened
    \/ LogCaller
    \/ GatherPlan
    \/ RingLoopTest
    \/ RingWaitEnter
    \/ RingWaitSignal
    \/ RingWaitTimeout
    \/ AnswerTest
    \/ PickUp
    \/ PlayGreeting
    \/ RecordMessage
    \/ VoiceMailMenu
    \/ HangUp

Spec == Init /\ [][Next]_vars

\* The steps of the processing thread.  The thread is a running thread of the
\* process: a step it can take is eventually taken, and a blocked
\* ring_event.wait(7) ends by a set() or by its timeout.  get() blocks for as
\* long as the queue is empty.
EngineNext ==
    \/ Dequeue
    \/ CheckWhitelist
    \/ CheckBlacklist
    \/ DefaultScreened
    \/ LogCaller
    \/ GatherPlan
    \/ RingLoopTest
    \/ RingWaitEnter
    \/ RingWaitSignal
    \/ RingWaitTimeout
    \/ AnswerTest
    \/ PickUp
    \/ PlayGreeting
    \/ RecordMessage
    \/ VoiceMailMenu
    \/ HangUp

\* The configurations of the liveness check: both screening modes, a
\* permitted plan behind the longest ring wait, a blocked plan answered at
\* once, any screened plan.
LiveConfigs ==
    { c \in Configs :
        /\ c.SCREENING_MODE = Modes
        /\ c.permitted = [actions |-> <<"record_message", "voice_mail", "greeting">>,
                          rings_before_answer |-> MaxRings]
        /\ c.blocked = [actions |-> <<"greeting">>, rings_before_answer |-> 0] }

InitLive == Init /\ config \in LiveConfigs

LiveSpec == InitLive /\ [][Next]_vars /\ WF_vars(EngineNext)

\* =================================================================
\* Properties
\* =================================================================
PickUpEvents == {"pick_up:true", "pick_up:false", "pick_up:raise"}
BlacklistEvents == {"is_blacklisted:true", "is_blacklisted:false", "is_blacklisted:raise"}
\* Positions inside answer_call after pick_up returned True.
InTryPcs == {"greeting", "record", "voice_mail", "hang_up"}
\* Positions of run() after the log_caller call returned.
PostLogPcs == {"gather", "ring_loop", "ring_wait", "ring_blocked", "answer", "pick_up"}
                 \cup InTryPcs
\* The classification block (lines 128-156) has completed for the current caller.
Classified == pc = "log" \/ InList("log_caller", events)
\* answer_call was entered for the current caller and control has left it
\* (returned to the loop, or propagated to run()'s handler).
AnswerCallLeft == CountIn(PickUpEvents, events) > 0 /\ pc \in {"get", "exited"}
\* The ring wait of the current caller is over.
RingWaitOver ==
    \/ pc \in {"answer", "pick_up"} \cup InTryPcs
    \/ CountIn(PickUpEvents, events) > 0
    \/ pc = "get" /\ InList("log_caller", events)

\* C1: when "whitelist" is enabled and is_whitelisted returned true for the
\* call, the call is Permitted (and logged as "Permitted" if it is logged) and
\* is_blacklisted is not called for it, also when "blacklist" is enabled.
C1_WhitelistPreemptsBlacklist ==
    (WhitelistEnabled(config.SCREENING_MODE) /\ InList("is_whitelisted:true", events))
        => /\ action = "Permitted"
           /\ caller_permitted /\ ~caller_blocked /\ ~caller_screened
           /\ CountIn(BlacklistEvents, events) = 0
           /\ InList("log_caller", events) => log_action = "Permitted"

\* C1 witness: both modes enabled, the caller was whitelisted, and the call
\* has been logged and gone on to the ring wait.
C1_Witness ==
    /\ config.SCREENING_MODE = Modes
    /\ InList("is_whitelisted:true", events)
    /\ InList("log_caller", events)
    /\ pc = "ring_loop"

\* C2: once a call is classified exactly one of permitted / blocked / screened
\* is set and action names it; a call that matched no list (no enabled check
\* returned true, or no check is enabled) is Screened.
C2_ExactlyOneCategory ==
    Classified =>
        /\ Cardinality({c \in Categories :
                \/ c = "Permitted" /\ caller_permitted
                \/ c = "Blocked" /\ caller_blocked
                \/ c = "Screened" /\ caller_screened}) = 1
        /\ action \in Categories
        /\ caller_permitted <=> action = "Permitted"
        /\ caller_blocked <=> action = "Blocked"
        /\ caller_screened <=> action = "Screened"
        /\ (~InList("is_whitelisted:true", events) /\ ~InList("is_blacklisted:true", events))
              => action = "Screened"
        /\ config.SCREENING_MODE = {} => action = "Screened"
        /\ InList("log_caller", events) => log_action = action

\* C2 witness: both checks enabled, both answered false, the call is logged
\* as Screened.
C2_Witness ==
    /\ config.SCREENING_MODE = Modes
    /\ InList("is_whitelisted:false", events)
    /\ InList("is_blacklisted:false", events)
    /\ InList("log_caller", events)
    /\ log_action = "Screened"

\* C3: hang_up is never called more often than pick_up returned true, and once
\* control has left answer_call after a successful pick_up (normal return,
\* RuntimeError caught, or another exception propagating) hang_up has been
\* called exactly once.
C3_OneHangUpPerPickUp ==
    /\ Count("hang_up", events) <= Count("pick_up:true", events)
    /\ Count("pick_up:true", events) <= 1
    /\ (InList("pick_up:true", events) /\ pc \notin InTryPcs)
          => Count("hang_up", events) = 1

\* C3 witness: an action raised an exception that answer_call does not catch,
\* it reached run()'s handler, and hang_up was called once on the way.
C3_Witness ==
    /\ pc = "exited"
    /\ failure = "action"
    /\ pending = "Exception"
    /\ InList("pick_up:true", events)
    /\ Count("hang_up", events) = 1

\* C4 (as claimed): whenever answer_call has returned, hang_up was called --
\* also on the early return taken when pick_up() fails.
C4_HangUpOnEveryExit ==
    (AnswerCallLeft /\ ~InList("pick_up:raise", events)) => InList("hang_up", events)

\* C5: record_message and the voice mail menu are never both executed for a
\* call; the menu runs only when "voice_mail" is configured and
\* "record_message" is not; with "record_message" configured it is
\* record_message that has run once the try block is past that step.
C5_RecordExcludesVoiceMail ==
    /\ ~(InList("record_message", events) /\ InList("voice_messaging_menu", events))
    /\ InList("voice_messaging_menu", events)
          => (InList("voice_mail", actions) /\ ~InList("record_message", actions))
    /\ (pc = "voice_mail" /\ InList("record_message", actions))
          => InList("record_message", events)
    /\ (pc = "hang_up" /\ pending = "none" /\ InList("voice_mail", actions)
            /\ ~InList("record_message", actions))
          => InList("voice_messaging_menu", events)

\* C5 witness: both names are configured, record_message ran, the menu did
\* not, and answer_call has returned.
C5_Witness ==
    /\ InList("record_message", actions)
    /\ InList("voice_mail", actions)
    /\ InList("record_message", events)
    /\ InList("hang_up", events)
    /\ pc = "get"

\* Indices of the ring_event.wait calls made for the current caller.
WaitIndices == {i \in 1..Len(events) : events[i] = "wait"}

C7_NoWaitForOneRing ==
    (InList("log_caller", events) /\ rings_before_answer <= 1) =>
        /\ Count("wait", events) = 0
        /\ pc \notin {"ring_wait", "ring_blocked"}
        /\ ok_to_answer
        /\ ring_count = 1

\* C7 witness: a plan with rings_before_answer = 1 reaches pick_up with no wait.
C7_Witness ==
    /\ rings_before_answer = 1
    /\ Len(actions) > 0
    /\ pc = "pick_up"
    /\ Count("wait", events) = 0

\* C8: pick_up is reached only for a call whose ring wait ended eligible (no
\* wait timed out) and whose category's action list is not empty.
C8_AnswerOnlyIfEligible ==
    (pc \in {"pick_up"} \cup InTryPcs \/ CountIn(PickUpEvents, events) > 0) =>
        /\ ok_to_answer
        /\ ~InList("timeout", events)
        /\ Len(actions) > 0
        /\ actions = PlanFor(config, caller_permitted, caller_screened,
                             caller_blocked).actions
        /\ Count("signal", events) >= rings_before_answer - 1

\* C8 witness: a call that had to wait for a ring was picked up.
C8_Witness ==
    /\ InList("pick_up:true", events)
    /\ Count("signal", events) = 2
    /\ rings_before_answer = 3

\* C9: log_caller is called at most once per call, with the call's category
\* and reason; it has been called once before any ring wait and before any
\* pick_up, whatever the result of the ring wait and of pick_up.
C9_LoggedOnceBeforeAnswer ==
    /\ Count("log_caller", events) <= 1
    /\ InList("log_caller", events)
          => /\ log_action = action
             /\ log_reason = reason
             /\ log_action \in Categories
    /\ pc \in PostLogPcs => Count("log_caller", events) = 1
    /\ \A i \in 1..Len(events) :
          events[i] \in {"wait"} \cup PickUpEvents
              => First("log_caller", events) \in 1..(i-1)

\* C9 witness: the ring wait timed out, no answer was attempted, and the call
\* is in the log.
C9_Witness ==
    /\ InList("timeout", events)
    /\ CountIn(PickUpEvents, events) = 0
    /\ Count("log_caller", events) = 1
    /\ call_no = log_seq
    /\ pc = "get"

\* C10 (as claimed): an exception of the membership checker, the logger, an
\* indicator or an answer action never ends run().
C10_FailureNeverEndsRun ==
    failure \in {"screener", "logger", "indicator", "action"} => pc # "exited"

\* C11: callers are dequeued in the order handle_caller enqueued them (callers
\* are numbered by arrival), and a caller is dequeued only when the previous
\* call is finished: the thread is back at the queue, it does not hold the
\* modem, the previous call was logged and, if it was picked up, hung up.
C11_InOrderNoOverlap ==
    [][ caller' # caller =>
           /\ caller' = caller + 1
           /\ pc = "get"
           /\ ~off_hook
           /\ caller # 0 => InList("log_caller", events)
           /\ InList("pick_up:true", events) => InList("hang_up", events)
           /\ caller_queue' = [i \in 1..(arrived - caller') |-> caller' + i] ]_vars

\* C11 witness: the second caller was enqueued while the first call was being
\* answered, and is still waiting in the queue.
C11_Witness ==
    /\ caller = 1
    /\ off_hook
    /\ pc = "record"
    /\ caller_queue = << 2 >>

\* The answer actions of answer_call.
ActionEvents == {"play_audio", "record_message", "voice_messaging_menu"}

\* C12: when pick_up() returned false no answer action is executed, no error
\* reaches run(), the thread is back at the queue ready for the next caller
\* without holding the modem, and the call is in the log.
C12_FailedPickUpRunsNothing ==
    InList("pick_up:false", events) =>
        /\ CountIn(ActionEvents, events) = 0
        /\ pc = "get"
        /\ failure = "none"
        /\ pending = "none"
        /\ ~off_hook
        /\ Count("log_caller", events) = 1
        /\ First("log_caller", events) < First("pick_up:false", events)

\* C12 witness: pick_up failed for the first caller and the second caller is
\* in the queue, about to be dequeued.
C12_Witness ==
    /\ caller = 1
    /\ InList("pick_up:false", events)
    /\ pc = "get"
    /\ caller_queue = << 2 >>

\* C13 (as claimed): the ring event is reset after each wait that consumes
\* it, so every wait that returns True has consumed a ring raised since the
\* ring wait began and not counted before: no ring raised before the loop
\* started, and no ring already counted, is counted (again).
C13_NoRingCountedTwice ==
    ~replayed

\* C14 (as claimed): when an answer action raises, whatever the exception,
\* the remaining actions are skipped, hang_up is still called, and nothing
\* propagates to run(): the thread goes back to the queue.
C14_ActionFailureContained ==
    pending # "none" =>
        /\ pc \in {"hang_up", "get", "exited"}
        /\ pc # "hang_up" => InList("hang_up", events)
        /\ failure # "action"
        /\ failure = "none" => pc # "exited"

\* C15 (as claimed): when is_whitelisted or is_blacklisted raises, run() does
\* not end: the call goes on as a Screened call.
C15_ScreenerFailureScreened ==
    (InList("is_whitelisted:raise", events) \/ InList("is_blacklisted:raise", events))
        => /\ failure # "screener"
           /\ pc # "exited"
           /\ Classified => action = "Screened"

\* C16: every answer action of a call comes after that call's successful
\* pick_up and before its hang_up, while the thread holds the modem; and when
\* "greeting" is configured the greeting is played before record_message or
\* the voice mail menu, wherever "greeting" stands in the action list.
C16_ActionsWhileOffHook ==
    /\ \A i \in 1..Len(events) :
          events[i] \in ActionEvents
              => /\ First("pick_up:true", events) \in 1..(i-1)
                 /\ InList("hang_up", events) => i < First("hang_up", events)
    /\ pc \in {"greeting", "record", "voice_mail"} => off_hook
    /\ off_hook => (InList("pick_up:true", events) /\ ~InList("hang_up", events))
    /\ (GreetingGuard(actions)
          /\ (InList("record_message", events) \/ InList("voice_messaging_menu", events)))
          => /\ InList("play_audio", events)
             /\ \A i \in 1..Len(events) :
                   events[i] \in {"record_message", "voice_messaging_menu"}
                       => First("play_audio", events) < i

\* C16 witness: "greeting" is the last name of the list, yet it was played
\* before the voice mail menu, and the call has been hung up.
C16_Witness ==
    /\ actions = << "voice_mail", "greeting" >>
    /\ InList("voice_messaging_menu", events)
    /\ First("play_audio", events) < First("voice_messaging_menu", events)
    /\ InList("hang_up", events)
    /\ ~off_hook

BlinkEvents == {"approved_blink", "blocked_blink"}

\* C17: at most one indicator blinks per call, and for a classified call
\* exactly one has, before the log_caller call: the blocked indicator for a
\* Blocked call and the approved indicator for a Permitted or Screened call,
\* never the other one.
C17_OneIndicatorPerCall ==
    /\ CountIn(BlinkEvents, events) <= 1
    /\ InList("blocked_blink", events) => action = "Blocked"
    /\ InList("approved_blink", events) => action \in {"Permitted", "Screened"}
    /\ Classified
          => /\ CountIn(BlinkEvents, events) = 1
             /\ action = "Blocked" <=> InList("blocked_blink", events)
             /\ action \in {"Permitted", "Screened"} <=> InList("approved_blink", events)
    /\ InList("log_caller", events)
          => \E i \in 1..(First("log_caller", events) - 1) : events[i] \in BlinkEvents

\* C17 witness: a Blocked call was logged after the blocked indicator blinked.
C17_Witness ==
    /\ log_action = "Blocked"
    /\ InList("blocked_blink", events)
    /\ ~InList("approved_blink", events)
    /\ InList("log_caller", events)
    /\ pc = "gather"

\* C18: under fair scheduling of the processing thread, every caller that
\* handle_caller enqueued is eventually dequeued and logged, unless an
\* exception of a collaborator has reached run(); no caller is logged twice
\* (the log never holds more entries than callers dequeued).  A ring wait
\* that times out does not stop the callers behind it from being logged.
C18_EveryCallerLogged ==
    /\ [](log_seq <= caller)
    /\ \A k \in 1..MaxCalls :
          (arrived >= k) ~> (failure # "none" \/ (caller >= k /\ log_seq >= k))

\* C18 witness: two callers arrived, both have been dequeued and logged, and
\* the second call's ring wait timed out after no collaborator raised.
C18_Witness ==
    /\ arrived = 2
    /\ caller = 2
    /\ log_seq = 2
    /\ failure = "none"
    /\ InList("timeout", events)
    /\ pc = "get"

WhitelistEvents == {"is_whitelisted:true", "is_whitelisted:false", "is_whitelisted:raise"}

\* C19 (as claimed): a Screened call is logged with the empty reason, also
\* when a membership check ran and returned (False, some reason); a Blocked
\* call is logged with the reason is_blacklisted returned and a Permitted
\* call with the reason is_whitelisted returned.
C19_ScreenedReasonEmpty ==
    InList("log_caller", events) =>
        /\ log_action = "Screened" => log_reason = ""
        /\ log_action = "Blocked"
              => (InList("is_blacklisted:true", events) /\ log_reason = returned)
        /\ log_action = "Permitted"
              => (InList("is_whitelisted:true", events) /\ log_reason = returned)

\* C19 (amended): every call is logged with the reason returned by the last
\* membership check made for it -- is_blacklisted's for a Blocked call,
\* is_whitelisted's for a Permitted call, and for a Screened call that of the
\* last check that answered False; the reason is the empty default only when
\* no check was made or that check returned an empty reason.
C19_LoggedReasonIsLastReturned ==
    InList("log_caller", events) =>
        /\ log_reason = returned
        /\ CountIn(WhitelistEvents \cup BlacklistEvents, events) = 0 => log_reason = ""
        /\ log_action = "Blocked"
              => (InList("is_blacklisted:true", events) /\ log_reason \in BlacklistReasons)
        /\ log_action = "Permitted"
              => (InList("is_whitelisted:true", events) /\ log_reason \in WhitelistReasons
                    /\ CountIn(BlacklistEvents, events) = 0)
        /\ (log_action = "Screened" /\ InList("is_blacklisted:false", events))
              => log_reason \in BlacklistReasons
        /\ (log_action = "Screened" /\ InList("is_whitelisted:false", events)
               /\ CountIn(BlacklistEvents, events) = 0)
              => log_reason \in WhitelistReasons

\* C19 witness: a call that is_blacklisted answered (False, non-empty reason)
\* was logged as Screened with that reason.
C19_Witness ==
    /\ InList("log_caller", events)
    /\ log_action = "Screened"
    /\ InList("is_blacklisted:false", events)
    /\ log_reason = "on blacklist"

Max(a, b) == IF a >= b THEN a ELSE b

\* C20: the ring wait of a call makes at most max(0, N-1) waits for a required
\* ring count N, the ring counter stays within 1 .. max(1, N), and a thread
\* blocked in a wait can always leave it (by a signal or by the timeout): the
\* ring wait cannot go on for ever, whether or not a ring arrives.
C20_RingWaitBounded ==
    InList("log_caller", events) =>
        /\ Count("wait", events) + 1 <= Max(1, rings_before_answer)
        /\ ring_count >= 1
        /\ ring_count <= Max(1, rings_before_answer)
        /\ Count("wait", events) <= (ring_count - 1) + 1
        /\ Count("signal", events) + Count("timeout", events)
              = Count("wait", events) - (IF pc = "ring_blocked" THEN 1 ELSE 0)
        /\ pc = "ring_blocked" => ENABLED (RingWaitSignal \/ RingWaitTimeout)

\* C20 witness: with MaxRings rings required and no ring arriving at all, the
\* first wait timed out and the thread left the ring wait.
C20_Witness ==
    /\ rings_before_answer = MaxRings
    /\ events[Len(events)] = "timeout"
    /\ Count("wait", events) = 1
    /\ ring_count = 1
    /\ ~ring_flag
    /\ pc = "answer"

====
